---------------------------- MODULE Spec2Model ----------------------------
(***************************************************************************)
(* A model of warnet's remote execution and pod-lifecycle synchronisation  *)
(* layer (src/src/warnet/k8s.py): the bulk transfer operations built on    *)
(* exec sessions (write_file_to_container, snapshot_bitcoin_datadir,       *)
(* download), the waits (wait_for_pod_ready, wait_for_init,                *)
(* wait_for_ingress_controller, wait_for_pod) and the namespace resolution *)
(* as ln._rpc (src/src/warnet/ln.py) uses it; with the local commands     *)
(* run through process.stream_command, can_delete_pods, and build_image    *)
(* (src/src/warnet/image_build.py).                                        *)
(*                                                                         *)
(* Five specifications:                                                    *)
(*   Spec      one call of a bulk transfer operation, interleaved with the *)
(*             remote processes it starts in the pod;                      *)
(*   SpecWait  one call of a wait, fed by the platform's watch event       *)
(*             stream or by its status reads;                              *)
(*   SpecTwo   two calls of snapshot_bitcoin_datadir at once on one pod;   *)
(*   SpecRpc   one call of ln._rpc while the ambient namespace may change; *)
(*   SpecCmd   one call of a kubectl wrapper, of can_delete_pods or of     *)
(*             build_image, over the outcomes of the commands it runs.     *)
(***************************************************************************)
EXTENDS Integers, Sequences, FiniteSets, TLC

(***************************************************************************)
(* Bounds of the model.                                                    *)
(***************************************************************************)
MaxData == 2        \* longest payload of write_file_to_container, longest tar stream of download
MaxLines == 2       \* most paths below the base directory the remote find walks
MaxPath == 2        \* deepest path below the base directory
MaxEvents == 3      \* most events a watch subscription delivers in one wait
MaxTimeout == 2     \* longest time budget (seconds) given to a wait
MaxOutput == 2      \* most lines a local command prints
MaxArches == 2      \* most architectures named in the argument arches of build_image

\* The byte alphabet of payloads and remote files.
Bytes == {"a", "b"}

\* A remote path with no file behind it.
NoFile == "NoFile"

RECURSIVE SeqsUpTo(_, _)
SeqsUpTo(S, n) ==
    IF n = 0 THEN {<<>>}
    ELSE LET shorter == SeqsUpTo(S, n - 1)
         IN  shorter \cup {Append(s, x) : s \in {t \in shorter : Len(t) = n - 1}, x \in S}

Payloads == SeqsUpTo(Bytes, MaxData) \ {<<>>}

\* What dst_path may hold before the call: nothing, or an earlier file.
PriorContents == {NoFile, <<"b">>}

\* The tokens of the remote find's output: the base directory
\* /root/.bitcoin/<chain> that leads every path find prints, the names of
\* directory entries below it, and newline.
NL == "NL"
Base == "B"
PathChars == {"p", "q"}

\* A path below the base directory: the names from the base down to it.
PathNames == SeqsUpTo(PathChars, MaxPath) \ {<<>>}

IsPrefix(a, b) == Len(a) <= Len(b) /\ SubSeq(b, 1, Len(a)) = a

\* What the pod may hold below the base directory: a set of paths in which
\* every path has its parent directory.
Trees ==
    {t \in SUBSET PathNames :
        /\ Cardinality(t) <= MaxLines
        /\ \A f \in t : Len(f) > 1 => SubSeq(f, 1, Len(f) - 1) \in t}

\* The argument filters: None or empty, or a list of -name patterns; a
\* pattern of the model is the entry name it matches.
FilterSets == {<<>>, <<"p">>, <<"q">>, <<"p", "q">>}

\* The bytes of a tar stream: bytes that are UTF-8 text on their own, and a
\* byte that is not valid UTF-8.
Invalid == "x80"
TarBytes == Bytes \cup {Invalid}

\* What the remote `tar cf -` of download streams to stdout.
TarStreams == SeqsUpTo(TarBytes, MaxData)

\* The argument source_path of download: whether its name carries a suffix
\* (so that source_path.stem differs from source_path.name), whether it is a
\* directory, and the tar stream the pod produces for it.
Sources == [suffix : BOOLEAN, dir : BOOLEAN, stream : TarStreams]
NoSource == [suffix |-> FALSE, dir |-> FALSE, stream |-> <<>>]


VARIABLES
    op,        \* the operation being called
    pc,        \* the controller's position in the operation
    open,      \* the exec sessions the operation holds a handle on and has not closed
    result,    \* what the call returned: "pending", "True", "None", "path", "raised"
    printed,   \* the messages the operation has printed
    data,      \* write_file_to_container: the payload (argument data)
    prior,     \* write_file_to_container: content of dst_path before the call
    fs,        \* the pod's filesystem: content at dst_path ("dst") and dst_path.tmp ("tmp")
    wire,      \* bytes written to the session's stdin and not yet read by the remote cat
    eof,       \* the remote end of stdin has been closed
    recv,      \* the remote `cat > dst.tmp && sync`: "none", "starting", "cat", "sync", "exited"
    fd,        \* the name under which the file cat holds open is linked: "tmp" or "dst"
    connected, \* resp.is_open() of the session being polled
    out,       \* stdout the remote process of that session has still to send
    file_list, \* snapshot_bitcoin_datadir: the paths parsed from find's output
    archive,   \* the pod's /tmp/bitcoin_data.tar.gz: NoFile or the archive of some paths
    local,     \* the controller's filesystem: the archive file, the folder named after the
               \* source's stem, the extracted tree
    name,      \* readiness waits: the pod name waited for
    timeout,   \* readiness waits: the time budget handed to the watch (timeout_seconds)
    listed,    \* wait_for_ingress_controller: pods.items of the ingress namespace at call time
    clock,     \* seconds of the watch's time budget that have elapsed
    events,    \* the watch events consumed so far, in order
    watch,     \* the watch subscription: "none", "open", "stopped", "exhausted", "broken"
    tree,      \* snapshot_bitcoin_datadir: the paths below the chain's base directory on the pod
    filters,   \* snapshot_bitcoin_datadir: the argument filters
    source,    \* download: the source path (has a suffix? a directory?) and what tar streams for it
    hist,      \* history of the call: the remote commands issued, the failure that ended
               \* it, the stdout the polled process was to send, what read_stdout returned
    ns,        \* ln._rpc: the ambient kubectl namespace, the argument, the namespaces used
    inv,       \* two concurrent snapshot_bitcoin_datadir calls on one pod
    proc       \* operations run on the controller's side: what the command or the
               \* platform call will answer, and what has been done so far

vars == <<op, pc, open, result, printed, data, prior, fs, wire, eof, recv, fd,
          connected, out, file_list, archive, local,
          name, timeout, listed, clock, events, watch,
          tree, filters, source, hist, ns, inv, proc>>

\* The arguments and the pod's data, which no operation changes, and the
\* state of the operations modelled apart.
fixedVars == <<tree, filters, source, ns, inv, proc>>

waitVars == <<name, timeout, listed, clock, events, watch>>

writeVars == <<data, prior, fs, wire, eof, recv, fd>>
pollVars == <<connected, out>>
snapVars == <<file_list, archive>>

(***************************************************************************)
(* Text helpers: str.strip() and str.split("\n") as Python computes them.  *)
(***************************************************************************)
RECURSIVE LStrip(_)
LStrip(s) == IF s # <<>> /\ Head(s) = NL THEN LStrip(Tail(s)) ELSE s

RECURSIVE RStrip(_)
RStrip(s) == IF s # <<>> /\ s[Len(s)] = NL THEN RStrip(SubSeq(s, 1, Len(s) - 1)) ELSE s

Strip(s) == RStrip(LStrip(s))

RECURSIVE Split(_)
Split(s) ==
    IF \A i \in 1..Len(s) : s[i] # NL THEN <<s>>
    ELSE LET i == CHOOSE j \in 1..Len(s) : s[j] = NL /\ \A k \in 1..(j - 1) : s[k] # NL
         IN  <<SubSeq(s, 1, i - 1)>> \o Split(SubSeq(s, i + 1, Len(s)))

\* History of the call: the command cmd has been handed to the platform.
Issued(cmd) == [hist EXCEPT !.issued = @ \cup {cmd}]

\* History of the call: a step raised; kind tells which: "unavailable" (a
\* session or a platform read could not be had), "transport" (an open stream
\* broke), "copy", "cleanup", "extract".
Failed(kind) == [hist EXCEPT !.failure = kind]

NoHistory == [issued |-> {}, failure |-> "none", sent |-> <<>>, read |-> <<>>]

\* A variant of ReadStdout that hands out the first token buffered only.
ReadStdoutFirst(frame) == <<Head(frame)>>

\* resp.read_stdout() in the turn of a poll loop whose update() buffered
\* the stdout frame: all of the buffered text, leaving the buffer empty.
ReadStdout(frame) == frame

\* A variant of Except that lets the exception leave the function.
ExceptPropagates(msg) ==
    /\ pc' = "done"
    /\ result' = "raised"
    /\ printed' = printed

\* The except branches print their message and fall off the end of the
\* function, which returns None.
Except(msg) ==
    /\ pc' = "done"
    /\ result' = "None"
    /\ printed' = printed \cup {msg}

(***************************************************************************)
(* write_file_to_container (k8s.py 602-658)                                *)
(***************************************************************************)
notWrite == <<pollVars, snapVars, local, waitVars, fixedVars>>

\* `mv dst.tmp dst` on the pod: an atomic rename when dst.tmp exists, and a
\* failing command that changes nothing when it does not.
Mv(f) ==
    IF f.tmp = NoFile THEN f ELSE [dst |-> f.tmp, tmp |-> NoFile]

\* stream(..., command=["sh","-c","cat > dst.tmp && sync"], stdin=True,
\* _preload_content=False) returns the session handle; the pod starts the
\* command.
WOpen ==
    /\ op = "write_file_to_container" /\ pc = "start"
    /\ open' = open \cup {"recv"}
    /\ recv' = "starting"
    /\ pc' = "write_stdin"
    /\ UNCHANGED <<op, result, printed, data, prior, fs, wire, eof, fd, notWrite, hist>>

\* stream() raises (the pod cannot be reached): except branch, returns None.
WOpenFail ==
    /\ op = "write_file_to_container" /\ pc = "start"
    /\ Except("failed")
    /\ hist' = Failed("unavailable")
    /\ UNCHANGED <<op, open, writeVars, notWrite>>

\* res.write_stdin(data): the whole payload is put on the stream.
WWriteStdin ==
    /\ op = "write_file_to_container" /\ pc = "write_stdin"
    /\ wire' = wire \o data
    /\ pc' = "close"
    /\ UNCHANGED <<op, open, result, printed, data, prior, fs, eof, recv, fd, notWrite, hist>>

\* res.write_stdin(data) raises after k bytes went out: except branch,
\* returns None; the handle res is never closed.
WWriteStdinFail ==
    /\ op = "write_file_to_container" /\ pc = "write_stdin"
    /\ \E k \in 0..(Len(data) - 1) : wire' = wire \o SubSeq(data, 1, k)
    /\ Except("failed")
    /\ hist' = Failed("transport")
    /\ UNCHANGED <<op, open, data, prior, fs, eof, recv, fd, notWrite>>

\* res.close(): the session is closed; the remote stdin sees end of file
\* once the bytes on the wire are read.
WClose ==
    /\ op = "write_file_to_container" /\ pc = "close"
    /\ open' = open \ {"recv"}
    /\ eof' = TRUE
    /\ pc' = "rename"
    /\ UNCHANGED <<op, result, printed, data, prior, fs, wire, recv, fd, notWrite, hist>>

\* res.close() raises: except branch, returns None.  Whether the stream was
\* shut down before the error is not known to the caller.
WCloseFail ==
    /\ op = "write_file_to_container" /\ pc = "close"
    /\ \E shut \in BOOLEAN :
          /\ eof' = shut
          /\ open' = IF shut THEN open \ {"recv"} ELSE open
    /\ Except("failed")
    /\ hist' = Failed("transport")
    /\ UNCHANGED <<op, data, prior, fs, wire, recv, fd, notWrite>>

\* The second stream(...) runs `mv dst.tmp dst` to completion (content is
\* preloaded); the command's exit status is not looked at; prints the
\* success message and returns True.
WRename ==
    /\ op = "write_file_to_container" /\ pc = "rename"
    /\ fs' = Mv(fs)
    /\ fd' = IF fs.tmp # NoFile /\ fd = "tmp" THEN "dst" ELSE fd
    /\ pc' = "done" /\ result' = "True"
    /\ printed' = printed \cup {"copied"}
    /\ UNCHANGED <<op, open, data, prior, wire, eof, recv, notWrite, hist>>

\* The second stream(...) raises: except branch, returns None.
WRenameFail ==
    /\ op = "write_file_to_container" /\ pc = "rename"
    /\ Except("failed")
    /\ hist' = Failed("unavailable")
    /\ UNCHANGED <<op, open, writeVars, notWrite>>

(***************************************************************************)
(* The remote receive process started by the first session.  It runs in    *)
(* the pod, concurrently with the controller.                              *)
(***************************************************************************)

\* The shell starts: `> dst.tmp` creates (or truncates) dst.tmp.
RecvStart ==
    /\ recv = "starting"
    /\ recv' = "cat"
    /\ fs' = [fs EXCEPT !.tmp = <<>>]
    /\ fd' = "tmp"
    /\ UNCHANGED <<op, pc, open, result, printed, data, prior, wire, eof, notWrite, hist>>

\* cat reads some of the bytes on the wire and appends them to its open file.
RecvWrite ==
    /\ recv = "cat" /\ wire # <<>>
    /\ \E k \in 1..Len(wire) :
          /\ fs' = [fs EXCEPT ![fd] = @ \o SubSeq(wire, 1, k)]
          /\ wire' = SubSeq(wire, k + 1, Len(wire))
    /\ UNCHANGED <<op, pc, open, result, printed, data, prior, eof, recv, fd, notWrite, hist>>

\* cat reads end of file and exits.
RecvEof ==
    /\ recv = "cat" /\ wire = <<>> /\ eof
    /\ recv' = "sync"
    /\ UNCHANGED <<op, pc, open, result, printed, data, prior, fs, wire, eof, fd, notWrite, hist>>

\* sync returns: the payload is flushed.
RecvSync ==
    /\ recv = "sync"
    /\ recv' = "exited"
    /\ UNCHANGED <<op, pc, open, result, printed, data, prior, fs, wire, eof, fd, notWrite, hist>>

WriteFile ==
    \/ WOpen \/ WOpenFail
    \/ WWriteStdin \/ WWriteStdinFail
    \/ WClose \/ WCloseFail
    \/ WRename \/ WRenameFail
    \/ RecvStart \/ RecvWrite \/ RecvEof \/ RecvSync

(***************************************************************************)
(* snapshot_bitcoin_datadir (k8s.py 315-436).  Path names of the model are *)
(* the names below the chain's base directory /root/.bitcoin/<chain>.      *)
(***************************************************************************)
notSnap == <<writeVars, waitVars, fixedVars>>

\* `-name F1 -o -name F2 ...`: the last name of the path f matches one of
\* the patterns.
Matches(F, f) == f # <<>> /\ \E i \in 1..Len(F) : F[i] = f[Len(f)]

\* find_command: with filters, `find base ( -type f -o -type d ) ( -name F1
\* -o -name F2 ... )` selects the files and directories whose own name matches
\* one of the patterns; without, `find base` selects the base directory
\* (written <<>>) and everything below it.
Selected(t, F) ==
    IF F = <<>> THEN {<<>>} \cup t
    ELSE {f \in t : Matches(F, f)}

\* The orders in which find may print a selection: a directory before what
\* is below it, the entries of one directory in any order.
FindOrders(S) ==
    {o \in [1..Cardinality(S) -> S] :
        /\ \A i, j \in 1..Cardinality(S) : i # j => o[i] # o[j]
        /\ \A i, j \in 1..Cardinality(S) : (i < j) => ~(IsPrefix(o[j], o[i]))}

\* One line per selected path: the absolute path, ended by a newline.
RECURSIVE Lines(_)
Lines(o) ==
    IF o = <<>> THEN <<>>
    ELSE <<Base>> \o Head(o) \o <<NL>> \o Lines(Tail(o))

\* What the remote find may print for the tree t under the filters F.
FindOutputs(t, F) == {Lines(o) : o \in FindOrders(Selected(t, F))}

NonBlank(f) == Strip(f) # <<>>

\* os.path.relpath(f, base): the names below the base directory for an
\* absolute path under it, "." for the base directory itself, and for a
\* relative f (resolved against the controller's working directory) a path
\* that climbs out of the base directory.
RelPath(f) ==
    IF Head(f) = Base
    THEN IF Len(f) = 1 THEN <<".">> ELSE Tail(f)
    ELSE <<"..">> \o f

\* The members handed to tar: the entries of file_list that are not blank,
\* each made relative to the base directory.
TarMembers(fl) ==
    LET kept == SelectSeq(fl, NonBlank)
    IN  [i \in 1..Len(kept) |-> RelPath(kept[i])]

\* What `tar -czf /tmp/bitcoin_data.tar.gz -C base members...` puts in the
\* archive: every member that exists, a directory with everything below it;
\* a member that does not exist is reported by tar and left out.
Archived(t, members) ==
    UNION {IF members[i] = <<".">> THEN {<<>>} \cup t
           ELSE {f \in t : IsPrefix(members[i], f)} : i \in 1..Len(members)}

\* The archive file holding the paths c.
Tarball(c) == <<c>>

\* sclient.read_namespaced_pod(...) succeeds.
SReadPod ==
    /\ op = "snapshot_bitcoin_datadir" /\ pc = "start"
    /\ pc' = "find_open"
    /\ UNCHANGED <<op, open, result, printed, pollVars, snapVars, local, notSnap, hist>>

\* sclient.read_namespaced_pod(...) raises: except branch.
SReadPodFail ==
    /\ op = "snapshot_bitcoin_datadir" /\ pc = "start"
    /\ Except("error")
    /\ hist' = Failed("unavailable")
    /\ UNCHANGED <<op, open, pollVars, snapVars, local, notSnap>>

\* stream(..., command=find_command, _preload_content=False): the find
\* session is open and the remote find has its output to send.
SFindOpen ==
    /\ op = "snapshot_bitcoin_datadir" /\ pc = "find_open"
    /\ open' = open \cup {"find"}
    /\ connected' = TRUE
    /\ out' \in FindOutputs(tree, filters)
    /\ pc' = "find_loop"
    /\ hist' = [Issued("find") EXCEPT !.sent = out']
    /\ UNCHANGED <<op, result, printed, snapVars, local, notSnap>>

SFindOpenFail ==
    /\ op = "snapshot_bitcoin_datadir" /\ pc = "find_open"
    /\ Except("error")
    /\ hist' = Failed("unavailable")
    /\ UNCHANGED <<op, open, pollVars, snapVars, local, notSnap>>

\* One turn of the find loop in which update() receives a stdout frame:
\* file_list.extend(resp.read_stdout().strip().split("\n")).
SFindPoll ==
    /\ op = "snapshot_bitcoin_datadir" /\ pc = "find_loop" /\ connected
    /\ \E k \in 1..Len(out) :
          /\ file_list' = file_list \o Split(Strip(ReadStdout(SubSeq(out, 1, k))))
          /\ hist' = [hist EXCEPT !.read = @ \o ReadStdout(SubSeq(out, 1, k))]
          /\ out' = SubSeq(out, k + 1, Len(out))
    /\ UNCHANGED <<op, pc, open, result, printed, connected, archive, local, notSnap>>

\* One turn of the find loop in which update() receives the close frame.
SFindPollClose ==
    /\ op = "snapshot_bitcoin_datadir" /\ pc = "find_loop" /\ connected
    /\ out = <<>>
    /\ connected' = FALSE
    /\ UNCHANGED <<op, pc, open, result, printed, out, snapVars, local, notSnap, hist>>

\* resp.update(timeout=1) raises in the find loop: except branch; the
\* handle resp is not closed.
SFindPollFail ==
    /\ op = "snapshot_bitcoin_datadir" /\ pc = "find_loop" /\ connected
    /\ Except("error")
    /\ hist' = Failed("transport")
    /\ UNCHANGED <<op, open, pollVars, snapVars, local, notSnap>>

\* A variant of NothingFound that never stops the pipeline.
NothingFoundNever(fl) == FALSE

\* `if not file_list`: the list holds no entry at all.
NothingFound(fl) == fl = <<>>

\* The find loop is left: resp.close(); with an empty file_list the
\* function reports that nothing matched and returns.
SFindClose ==
    /\ op = "snapshot_bitcoin_datadir" /\ pc = "find_loop" /\ ~connected
    /\ open' = open \ {"find"}
    /\ IF NothingFound(file_list)
       THEN /\ pc' = "done" /\ result' = "None"
            /\ printed' = printed \cup {"nomatch"}
       ELSE /\ pc' = "tar_open"
            /\ UNCHANGED <<result, printed>>
    /\ UNCHANGED <<op, pollVars, snapVars, local, notSnap, hist>>

\* stream(..., command=tar_command, _preload_content=False): the remote tar
\* writes /tmp/bitcoin_data.tar.gz from the members it was given; with no
\* member it refuses and writes nothing.
STarOpen ==
    /\ op = "snapshot_bitcoin_datadir" /\ pc = "tar_open"
    /\ open' = open \cup {"tar"}
    /\ connected' = TRUE
    /\ out' = <<>>
    /\ archive' = IF TarMembers(file_list) = <<>> THEN archive
                  ELSE Tarball(Archived(tree, TarMembers(file_list)))
    /\ pc' = "tar_loop"
    /\ hist' = Issued("tar")
    /\ UNCHANGED <<op, result, printed, file_list, local, notSnap>>

STarOpenFail ==
    /\ op = "snapshot_bitcoin_datadir" /\ pc = "tar_open"
    /\ Except("error")
    /\ hist' = Failed("unavailable")
    /\ UNCHANGED <<op, open, pollVars, snapVars, local, notSnap>>

\* One turn of the tar loop in which update() receives the close frame.
STarPollClose ==
    /\ op = "snapshot_bitcoin_datadir" /\ pc = "tar_loop" /\ connected
    /\ connected' = FALSE
    /\ UNCHANGED <<op, pc, open, result, printed, out, snapVars, local, notSnap, hist>>

\* resp.update(timeout=1) raises in the tar loop: except branch; the handle
\* resp is not closed.
STarPollFail ==
    /\ op = "snapshot_bitcoin_datadir" /\ pc = "tar_loop" /\ connected
    /\ Except("error")
    /\ hist' = Failed("transport")
    /\ UNCHANGED <<op, open, pollVars, snapVars, local, notSnap>>

\* The tar loop is left: resp.close().
STarClose ==
    /\ op = "snapshot_bitcoin_datadir" /\ pc = "tar_loop" /\ ~connected
    /\ open' = open \ {"tar"}
    /\ pc' = "copy"
    /\ UNCHANGED <<op, result, printed, pollVars, snapVars, local, notSnap, hist>>

\* stream_command("kubectl cp ...") succeeds: the archive is now the local
\* file <local_path>/<pod>_bitcoin_data.tar.gz; the export is reported.
SCopy ==
    /\ op = "snapshot_bitcoin_datadir" /\ pc = "copy"
    /\ archive # NoFile
    /\ local' = [local EXCEPT !.file = archive]
    /\ printed' = printed \cup {"exported"}
    /\ pc' = "cleanup"
    /\ hist' = Issued("cp")
    /\ UNCHANGED <<op, open, result, pollVars, snapVars, notSnap>>

\* stream_command raises (kubectl cp exits non-zero): except branch.
SCopyFail ==
    /\ op = "snapshot_bitcoin_datadir" /\ pc = "copy"
    /\ Except("error")
    /\ hist' = [Issued("cp") EXCEPT !.failure = "copy"]
    /\ UNCHANGED <<op, open, pollVars, snapVars, local, notSnap>>

\* stream(..., command=["rm", "/tmp/bitcoin_data.tar.gz"]) runs to
\* completion; the hint for re-expanding the archive is printed.
SCleanup ==
    /\ op = "snapshot_bitcoin_datadir" /\ pc = "cleanup"
    /\ archive' = NoFile
    /\ printed' = printed \cup {"hint"}
    /\ pc' = "done" /\ result' = "None"
    /\ hist' = Issued("rm")
    /\ UNCHANGED <<op, open, pollVars, file_list, local, notSnap>>

\* The cleanup stream(...) raises: except branch.
SCleanupFail ==
    /\ op = "snapshot_bitcoin_datadir" /\ pc = "cleanup"
    /\ Except("error")
    /\ hist' = [Issued("rm") EXCEPT !.failure = "cleanup"]
    /\ UNCHANGED <<op, open, pollVars, snapVars, local, notSnap>>

Snapshot ==
    \/ SReadPod \/ SReadPodFail
    \/ SFindOpen \/ SFindOpenFail
    \/ SFindPoll \/ SFindPollClose \/ SFindPollFail \/ SFindClose
    \/ STarOpen \/ STarOpenFail
    \/ STarPollClose \/ STarPollFail \/ STarClose
    \/ SCopy \/ SCopyFail
    \/ SCleanup \/ SCleanupFail

(***************************************************************************)
(* download (k8s.py 867-922).  No exception is caught: a failing step      *)
(* leaves the function by raising.                                         *)
(***************************************************************************)
notDownload == <<writeVars, snapVars, waitVars, fixedVars>>

Raise ==
    /\ pc' = "done"
    /\ result' = "raised"

\* The text the client hands out for a received byte and its encoding back
\* by .encode("utf-8"): a byte that is not valid UTF-8 was decoded to the
\* replacement character, which encodes to other bytes.
Utf8(b) == IF b = Invalid THEN "fffd" ELSE b

\* resp.read_stdout().encode("utf-8") for the received frame.
Recoded(frame) == [i \in 1..Len(frame) |-> Utf8(frame[i])]

\* tarfile's extractall can put the archive's root entry, named
\* source_path.name, under destination_path: not when the root is a file
\* whose name makedirs has already given to the directory target_folder.
Extractable(src) == src.suffix \/ src.dir

\* os.makedirs(target_folder, exist_ok=True).
DMakedirs ==
    /\ op = "download" /\ pc = "start"
    /\ local' = [local EXCEPT !.folder = TRUE]
    /\ pc' = "dl_open"
    /\ UNCHANGED <<op, open, result, printed, pollVars, notDownload, hist>>

\* stream(..., command=["tar","cf","-",...], _preload_content=False), then
\* open(tar_file, "wb") creates the local archive file.
DOpen ==
    /\ op = "download" /\ pc = "dl_open"
    /\ open' = open \cup {"download"}
    /\ connected' = TRUE
    /\ out' = source.stream
    /\ local' = [local EXCEPT !.file = <<>>]
    /\ pc' = "dl_loop"
    /\ hist' = [hist EXCEPT !.sent = out']
    /\ UNCHANGED <<op, result, printed, notDownload>>

\* stream(...) raises.
DOpenFail ==
    /\ op = "download" /\ pc = "dl_open"
    /\ Raise
    /\ hist' = Failed("unavailable")
    /\ UNCHANGED <<op, open, printed, pollVars, local, notDownload>>

\* One turn of the loop in which update() receives a stdout frame:
\* f.write(resp.read_stdout().encode("utf-8")).
DPoll ==
    /\ op = "download" /\ pc = "dl_loop" /\ connected
    /\ \E k \in 1..Len(out) :
          /\ local' = [local EXCEPT !.file = @ \o Recoded(ReadStdout(SubSeq(out, 1, k)))]
          /\ hist' = [hist EXCEPT !.read = @ \o ReadStdout(SubSeq(out, 1, k))]
          /\ out' = SubSeq(out, k + 1, Len(out))
    /\ UNCHANGED <<op, pc, open, result, printed, connected, notDownload>>

\* One turn of the loop in which update() receives the close frame.
DPollClose ==
    /\ op = "download" /\ pc = "dl_loop" /\ connected
    /\ out = <<>>
    /\ connected' = FALSE
    /\ UNCHANGED <<op, pc, open, result, printed, out, local, notDownload, hist>>

\* resp.update(timeout=1) raises: the with block closes the local file and
\* the exception leaves download; resp.close() is not reached.
DPollFail ==
    /\ op = "download" /\ pc = "dl_loop" /\ connected
    /\ Raise
    /\ hist' = Failed("transport")
    /\ UNCHANGED <<op, open, printed, pollVars, local, notDownload>>

\* The loop is left: resp.close(), still inside the with block.
DClose ==
    /\ op = "download" /\ pc = "dl_loop" /\ ~connected
    /\ open' = open \ {"download"}
    /\ pc' = "extract"
    /\ UNCHANGED <<op, result, printed, pollVars, local, notDownload, hist>>

\* tarfile.open(tar_file).extractall(destination_path); os.remove(tar_file);
\* return destination_path.
DExtract ==
    /\ op = "download" /\ pc = "extract"
    /\ local.file # <<>>
    /\ Extractable(source)
    /\ local' = [local EXCEPT !.tree = local.file, !.file = NoFile]
    /\ pc' = "done" /\ result' = "path"
    /\ UNCHANGED <<op, open, printed, pollVars, notDownload, hist>>

\* tarfile.open or extractall raises (the captured stream is no archive, or
\* an entry cannot be written).
DExtractFail ==
    /\ op = "download" /\ pc = "extract"
    /\ Raise
    /\ hist' = Failed("extract")
    /\ UNCHANGED <<op, open, printed, pollVars, local, notDownload>>

Download ==
    \/ DMakedirs
    \/ DOpen \/ DOpenFail
    \/ DPoll \/ DPollClose \/ DPollFail \/ DClose
    \/ DExtract \/ DExtractFail

(***************************************************************************)
(* One call of a bulk transfer operation.                                  *)
(***************************************************************************)
Operations == {"write_file_to_container", "snapshot_bitcoin_datadir", "download"}

\* No readiness wait is in progress.
WaitIdle ==
    /\ name = <<>>
    /\ timeout = 0
    /\ listed = <<>>
    /\ clock = 0
    /\ events = <<>>
    /\ watch = "none"

Init ==
    /\ op \in Operations
    /\ pc = "start"
    /\ open = {}
    /\ result = "pending"
    /\ printed = {}
    /\ WaitIdle
    /\ data \in (IF op = "write_file_to_container" THEN Payloads ELSE {<<>>})
    /\ prior \in (IF op = "write_file_to_container" THEN PriorContents ELSE {NoFile})
    /\ fs = [dst |-> prior, tmp |-> NoFile]
    /\ wire = <<>>
    /\ eof = FALSE
    /\ recv = "none"
    /\ fd = "tmp"
    /\ connected = FALSE
    /\ out = <<>>
    /\ file_list = <<>>
    /\ archive = NoFile
    /\ local = [file |-> NoFile, folder |-> FALSE, tree |-> NoFile]
    /\ hist = NoHistory
    /\ tree \in (IF op = "snapshot_bitcoin_datadir" THEN Trees ELSE {{}})
    /\ filters \in (IF op = "snapshot_bitcoin_datadir" THEN FilterSets ELSE {<<>>})
    /\ source \in (IF op = "download" THEN Sources ELSE {NoSource})
    /\ ns = <<>> /\ inv = <<>> /\ proc = <<>>

Next == WriteFile \/ Snapshot \/ Download

Spec == Init /\ [][Next]_vars

(***************************************************************************)
(* Claims about write_file_to_container                                    *)
(***************************************************************************)

\* C1: atomicity of write_file_to_container: whatever the interleaving of the
\* remote receive process, write_stdin/close and the rename, a reader of
\* dst_path sees the prior content or all of the payload, never a proper
\* prefix of it.
C1_AtomicWrite ==
    op = "write_file_to_container" => fs.dst \in {prior, data}

\* C2: whenever write_file_to_container returns True, dst_path holds exactly
\* the payload and no dst_path.tmp remains.
C2_TrueMeansWritten ==
    (op = "write_file_to_container" /\ result = "True")
        => (fs.dst = data /\ fs.tmp = NoFile)

\* C3: whenever write_file_to_container reports failure (returns None), the
\* remote filesystem is as before the call: dst_path has its prior content
\* and there is no dst_path.tmp.
C3_FailureLeavesNothing ==
    (op = "write_file_to_container" /\ result = "None")
        => (fs.dst = prior /\ fs.tmp = NoFile)

(***************************************************************************)
(* Claims about exec sessions                                              *)
(***************************************************************************)

\* C10: every exec session opened by snapshot_bitcoin_datadir,
\* write_file_to_container and download is closed on every exit path: when
\* the operation has returned or raised, no session it opened is still open.
C10_SessionsClosedOnExit ==
    pc = "done" => open = {}

(***************************************************************************)
(* Readiness waits (k8s.py 439-521): wait_for_pod_ready, wait_for_init,    *)
(* wait_for_ingress_controller.  A watch event carries the pod it is       *)
(* about: its name, its phase, its conditions (None, or a list with one    *)
(* entry per condition type) and its init container statuses (None, or one *)
(* sub-state per init container, in order).                                *)
(***************************************************************************)
\* An optional field of a pod: None, or Some(v).
None == <<>>
Some(v) == <<v>>

Alpha == <<"alpha">>
Beta == <<"beta">>
Controller == <<"ingress", "nginx", "controller", "5c8d">>
Admission == <<"ingress", "nginx", "admission", "create">>

\* The name part wait_for_ingress_controller looks for.
IngressPattern == <<"ingress", "nginx", "controller">>

Cond(type, status) == [type |-> type, status |-> status]

\* The condition lists a pod may report.
ConditionLists ==
    { None,
      Some(<<Cond("Ready", "True")>>),
      Some(<<Cond("PodScheduled", "True"), Cond("Ready", "True")>>),
      Some(<<Cond("PodScheduled", "True"), Cond("Ready", "False")>>) }

Phases == {"Pending", "Running"}

\* The init container statuses a pod may report.
InitStatusLists ==
    { None, Some(<<>>), Some(<<"waiting">>), Some(<<"running">>),
      Some(<<"terminated", "running">>), Some(<<"terminated", "waiting">>) }

Pod(n, phase, conditions, inits) ==
    [name |-> n, phase |-> phase, conditions |-> conditions,
     init_container_statuses |-> inits]

\* The events a wait can receive: those of the pod waited for and of
\* another pod of the namespace.  Each wait is fed the fields it reads.
NamespacePods == IF op = "wait_for_ingress_controller" THEN {Controller, Admission}
                 ELSE {Alpha, Beta}

WatchEvents ==
    IF op = "wait_for_init"
    THEN {Pod(n, "Pending", None, i) : n \in NamespacePods, i \in InitStatusLists}
    ELSE {Pod(n, ph, c, None) : n \in NamespacePods, ph \in Phases, c \in ConditionLists}

\* What list_namespaced_pod(INGRESS_NAMESPACE) may return at call time.
Listings ==
    { <<>>, <<Admission>>, <<Controller>>, <<Admission, Controller>>,
      <<Controller, Admission>> }

\* `pattern in s` for names.
Contains(pattern, s) ==
    \E i \in 1..(Len(s) - Len(pattern) + 1) :
        SubSeq(s, i, i + Len(pattern) - 1) = pattern

\* pod.status.conditions or []
ConditionsOrEmpty(pod) ==
    IF pod.conditions = None THEN <<>> ELSE pod.conditions[1]

\* next((c for c in conditions if c.type == "Ready"), None)
ReadyCondition(conditions) ==
    IF \E i \in 1..Len(conditions) : conditions[i].type = "Ready"
    THEN Some(conditions[CHOOSE i \in 1..Len(conditions) :
                             /\ conditions[i].type = "Ready"
                             /\ \A j \in 1..(i - 1) : conditions[j].type # "Ready"])
    ELSE None

PodReadyMatchNoPhase(pod, n) ==
    /\ pod.name = n
    /\ LET ready_condition == ReadyCondition(ConditionsOrEmpty(pod))
       IN  ready_condition # None /\ ready_condition[1].status = "True"

\* The test wait_for_pod_ready makes on an event (lines 457-460).
PodReadyMatch(pod, n) ==
    /\ pod.name = n /\ pod.phase = "Running"
    /\ LET ready_condition == ReadyCondition(ConditionsOrEmpty(pod))
       IN  ready_condition # None /\ ready_condition[1].status = "True"

InitOutcomeNoGuard(pod, n) ==
    IF pod.name # n THEN "continue"
    ELSE IF pod.init_container_statuses = None THEN "raise"
    ELSE IF \E i \in 1..Len(pod.init_container_statuses[1]) :
                pod.init_container_statuses[1][i] = "running"
         THEN "ready" ELSE "continue"

InitOutcomeAnyStatus(pod, n) ==
    IF pod.name # n THEN "continue"
    ELSE IF pod.init_container_statuses \in {None, Some(<<>>)} THEN "continue"
    ELSE "ready"

\* What wait_for_init does with an event (lines 492-500): "continue" with
\* the next event, or "ready".  Iterating over statuses that are None would
\* "raise".
InitOutcome(pod, n) ==
    IF pod.name # n THEN "continue"
    ELSE IF pod.init_container_statuses \in {None, Some(<<>>)} THEN "continue"
    ELSE IF \E i \in 1..Len(pod.init_container_statuses[1]) :
                pod.init_container_statuses[1][i] = "running"
         THEN "ready" ELSE "continue"

WatchLeftOpen == "open"

\* w.stop() on the ready path (lines 461, 499).
WatchAfterReady == "stopped"

TimeoutReturnsNone == "None"

\* return False after the event loop (lines 464, 503).
TimeoutResult == "False"

notWait == <<open, writeVars, pollVars, snapVars, local, fixedVars, hist>>

\* wait_for_ingress_controller: list the ingress namespace and delegate to
\* wait_for_pod_ready for the first pod whose name contains the pattern;
\* with no such pod, return False.
IngressList ==
    /\ op = "wait_for_ingress_controller" /\ pc = "start"
    /\ IF \E i \in 1..Len(listed) : Contains(IngressPattern, listed[i])
       THEN /\ name' = listed[CHOOSE i \in 1..Len(listed) :
                                /\ Contains(IngressPattern, listed[i])
                                /\ \A j \in 1..(i - 1) : ~Contains(IngressPattern, listed[j])]
            /\ pc' = "watch_open"
            /\ UNCHANGED result
       ELSE /\ pc' = "done" /\ result' = "False"
            /\ UNCHANGED name
    /\ UNCHANGED <<op, printed, timeout, listed, clock, events, watch, notWait>>

\* w = watch.Watch(); w.stream(list_namespaced_pod, namespace,
\* timeout_seconds=timeout): the subscription is open.
WatchOpen ==
    /\ \/ op \in {"wait_for_pod_ready", "wait_for_init"} /\ pc = "start"
       \/ op = "wait_for_ingress_controller" /\ pc = "watch_open"
    /\ watch' = "open"
    /\ pc' = "watching"
    /\ UNCHANGED <<op, result, printed, name, timeout, listed, clock, events, notWait>>

\* A second of the subscription's time budget passes.
Tick ==
    /\ pc = "watching" /\ clock < timeout
    /\ clock' = clock + 1
    /\ UNCHANGED <<op, pc, result, printed, name, timeout, listed, events, watch, notWait>>

\* wait_for_pod_ready's loop body on the next event.
PodReadyEvent ==
    /\ op \in {"wait_for_pod_ready", "wait_for_ingress_controller"}
    /\ pc = "watching" /\ clock < timeout /\ Len(events) < MaxEvents
    /\ \E pod \in WatchEvents :
          /\ events' = Append(events, pod)
          /\ IF PodReadyMatch(pod, name)
             THEN /\ watch' = WatchAfterReady
                  /\ pc' = "done" /\ result' = "True"
             ELSE UNCHANGED <<watch, pc, result>>
    /\ UNCHANGED <<op, printed, name, timeout, listed, clock, notWait>>

\* wait_for_init's loop body on the next event.
InitEvent ==
    /\ op = "wait_for_init"
    /\ pc = "watching" /\ clock < timeout /\ Len(events) < MaxEvents
    /\ \E pod \in WatchEvents :
          /\ events' = Append(events, pod)
          /\ CASE InitOutcome(pod, name) = "ready" ->
                    /\ watch' = WatchAfterReady
                    /\ pc' = "done" /\ result' = "True"
                    /\ printed' = printed \cup {"ready"}
               [] InitOutcome(pod, name) = "raise" ->
                    /\ pc' = "done" /\ result' = "raised"
                    /\ UNCHANGED <<watch, printed>>
               [] OTHER -> UNCHANGED <<watch, pc, result, printed>>
    /\ UNCHANGED <<op, name, timeout, listed, clock, notWait>>

\* The time budget is used up: the event stream ends, the loop is left, the
\* timeout message is printed and the wait returns False.
WatchTimeout ==
    /\ pc = "watching" /\ clock = timeout
    /\ watch' = "exhausted"
    /\ printed' = printed \cup {"timeout"}
    /\ pc' = "done" /\ result' = TimeoutResult
    /\ UNCHANGED <<op, name, timeout, listed, clock, events, notWait>>

\* The event stream itself fails (the connection breaks): the error leaves
\* the wait, the stream having released its connection.
WatchError ==
    /\ pc = "watching"
    /\ watch' = "broken"
    /\ pc' = "done" /\ result' = "raised"
    /\ UNCHANGED <<op, printed, name, timeout, listed, clock, events, notWait>>

(***************************************************************************)
(* wait_for_pod (k8s.py 579-599): a loop of status reads one second apart. *)
(* events holds the statuses read, clock the seconds slept; timeout is the *)
(* local timeout_seconds, which the loop counts down.                      *)
(***************************************************************************)

\* A variant of StillWaiting that goes round once more.
StillWaitingInclusive(t) == t >= 0

\* `while timeout_seconds > 0`.
StillWaiting(t) == t > 0

\* read_namespaced_pod_status shows the pod Pending: sleep(1) and count down.
PodStatusPending ==
    /\ op = "wait_for_pod" /\ pc = "start"
    /\ StillWaiting(timeout)
    /\ events' = Append(events, Pod(name, "Pending", None, None))
    /\ clock' = clock + 1
    /\ timeout' = timeout - 1
    /\ UNCHANGED <<op, pc, result, printed, name, listed, watch, notWait>>

\* read_namespaced_pod_status shows another phase: return.
PodStatusLeft ==
    /\ op = "wait_for_pod" /\ pc = "start"
    /\ StillWaiting(timeout)
    /\ \E ph \in Phases \ {"Pending"} :
          events' = Append(events, Pod(name, ph, None, None))
    /\ pc' = "done" /\ result' = "None"
    /\ UNCHANGED <<op, printed, name, timeout, listed, clock, watch, notWait>>

\* read_namespaced_pod_status raises.
PodStatusFail ==
    /\ op = "wait_for_pod" /\ pc = "start"
    /\ StillWaiting(timeout)
    /\ pc' = "done" /\ result' = "raised"
    /\ UNCHANGED <<op, printed, name, timeout, listed, clock, events, watch, notWait>>

\* The loop condition fails: the function falls off its end.
PodWaitLapsed ==
    /\ op = "wait_for_pod" /\ pc = "start"
    /\ ~StillWaiting(timeout)
    /\ pc' = "done" /\ result' = "None"
    /\ UNCHANGED <<op, printed, name, timeout, listed, clock, events, watch, notWait>>

WaitFunctions ==
    {"wait_for_pod_ready", "wait_for_init", "wait_for_ingress_controller", "wait_for_pod"}

\* No bulk transfer is in progress.
ExecIdle ==
    /\ open = {}
    /\ data = <<>> /\ prior = NoFile
    /\ fs = [dst |-> NoFile, tmp |-> NoFile]
    /\ wire = <<>> /\ eof = FALSE /\ recv = "none" /\ fd = "tmp"
    /\ connected = FALSE /\ out = <<>>
    /\ file_list = <<>> /\ archive = NoFile
    /\ local = [file |-> NoFile, folder |-> FALSE, tree |-> NoFile]
    /\ hist = NoHistory

\* No snapshot, download or lncli call has been given its arguments.
NoArguments ==
    /\ tree = {} /\ filters = <<>> /\ source = NoSource /\ ns = <<>> /\ inv = <<>> /\ proc = <<>>

InitWait ==
    /\ NoArguments
    /\ op \in WaitFunctions
    /\ pc = "start"
    /\ result = "pending"
    /\ printed = {}
    /\ name = (IF op = "wait_for_ingress_controller" THEN <<>> ELSE Alpha)
    /\ timeout \in (IF op = "wait_for_pod" THEN 0..MaxTimeout ELSE 1..MaxTimeout)
    /\ listed \in (IF op = "wait_for_ingress_controller" THEN Listings ELSE {<<>>})
    /\ clock = 0
    /\ events = <<>>
    /\ watch = "none"
    /\ ExecIdle

NextWait ==
    \/ IngressList
    \/ WatchOpen
    \/ Tick
    \/ PodReadyEvent
    \/ InitEvent
    \/ WatchTimeout
    \/ WatchError
    \/ PodStatusPending \/ PodStatusLeft \/ PodStatusFail \/ PodWaitLapsed

SpecWait == InitWait /\ [][NextWait]_vars

(***************************************************************************)
(* Claims about the readiness waits                                        *)
(***************************************************************************)
LastEvent == events[Len(events)]

\* An event shows the named pod Running with a Ready condition of status True.
ShowsReady(pod) ==
    /\ pod.name = name
    /\ pod.phase = "Running"
    /\ pod.conditions # None
    /\ \E i \in 1..Len(pod.conditions[1]) :
          /\ pod.conditions[1][i].type = "Ready"
          /\ pod.conditions[1][i].status = "True"

\* An event shows the named pod before its init container statuses exist.
Unpopulated(pod) ==
    pod.name = name /\ pod.init_container_statuses \in {None, Some(<<>>)}

\* An event shows the named pod with some init container running.
SomeInitRunning(pod) ==
    /\ pod.name = name
    /\ pod.init_container_statuses # None
    /\ \E i \in 1..Len(pod.init_container_statuses[1]) :
          pod.init_container_statuses[1][i] = "running"

\* C4: wait_for_pod_ready returns True at the first event that shows the
\* named pod Running with a Ready condition of status True, and consumes no
\* event after it; no other event makes it return True.  (The call made by
\* wait_for_ingress_controller for the controller pod is covered too.)
C4_TrueAtFirstReadyEvent ==
    op \in {"wait_for_pod_ready", "wait_for_ingress_controller"} =>
        /\ \A i \in 1..Len(events) :
              ShowsReady(events[i]) =>
                  (i = Len(events) /\ pc = "done" /\ result = "True")
        /\ result = "True" => (events # <<>> /\ ShowsReady(LastEvent))

\* A wait that returned True at its third event, after an event of the named
\* pod that was not ready and a ready event of another pod.
C4_Witness ==
    /\ op = "wait_for_pod_ready" /\ result = "True" /\ Len(events) = 3
    /\ events[1].name = name /\ events[1].phase = "Running"
    /\ events[2].name # name /\ events[2].phase = "Running"
    /\ events[2].conditions = Some(<<Cond("Ready", "True")>>)

\* C5: when the event stream of wait_for_pod_ready or wait_for_init ends with
\* the time budget used up and no event has satisfied the wait, the call
\* returns False and raises nothing: handling an event never raises,
\* whatever events were delivered.
C5_TimeoutReturnsFalse ==
    op \in {"wait_for_pod_ready", "wait_for_init"} =>
        /\ watch = "exhausted" => (pc = "done" /\ result = "False")
        /\ result = "raised" => watch = "broken"

\* A wait_for_init whose stream ended after two events of the named pod.
C5_Witness ==
    /\ op = "wait_for_init" /\ watch = "exhausted" /\ Len(events) = 2
    /\ events[1].name = name /\ events[2].name = name

\* C6: a readiness wait returns False only after the time budget of its
\* watch has been used up.
C6_FalseOnlyAfterBudget ==
    result = "False" => clock = timeout

\* C7: in wait_for_init an event for the named pod whose init container
\* statuses are None or empty is skipped without error and the wait goes on;
\* with no later event showing a running init container the call returns
\* False at timeout.
C7_UnpopulatedEventSkipped ==
    (op = "wait_for_init" /\ events # <<>> /\ Unpopulated(LastEvent)) =>
        \/ pc = "watching" /\ result = "pending" /\ watch = "open"
        \/ pc = "done" /\ watch = "exhausted" /\ result = "False" /\ clock = timeout
        \/ pc = "done" /\ watch = "broken"

\* A wait_for_init that saw the named pod with statuses None, then empty,
\* and returned False.
C7_Witness ==
    /\ op = "wait_for_init" /\ Len(events) = 2
    /\ events[1].name = name /\ events[1].init_container_statuses = None
    /\ events[2].name = name /\ events[2].init_container_statuses = Some(<<>>)
    /\ pc = "done" /\ result = "False"

\* C8 as claimed: wait_for_init returns True only when the named pod's
\* first init container status is running.
C8_FirstInitRunning ==
    (op = "wait_for_init" /\ result = "True") =>
        /\ LastEvent.name = name
        /\ LastEvent.init_container_statuses # None
        /\ LastEvent.init_container_statuses[1] # <<>>
        /\ LastEvent.init_container_statuses[1][1] = "running"

\* C8 as amended: wait_for_init returns True exactly at the first event that
\* shows the named pod with some init container status, in any position, in
\* the running sub-state.
C8_SomeInitRunning ==
    op = "wait_for_init" =>
        /\ \A i \in 1..Len(events) :
              SomeInitRunning(events[i]) =>
                  (i = Len(events) /\ pc = "done" /\ result = "True")
        /\ result = "True" => (events # <<>> /\ SomeInitRunning(LastEvent))

\* A wait_for_init that returned True on a pod whose first init container
\* had terminated and whose second was running.
C8_Witness ==
    /\ op = "wait_for_init" /\ result = "True"
    /\ LastEvent.init_container_statuses = Some(<<"terminated", "running">>)

C11_CleanupAlwaysAttempted ==
    (op = "snapshot_bitcoin_datadir" /\ pc = "done" /\ "tar" \in hist.issued)
        => "rm" \in hist.issued


C14_OnlyMatchingArchived ==
    (op = "snapshot_bitcoin_datadir" /\ archive # NoFile) =>
        IF filters = <<>> THEN tree \subseteq archive[1]
        ELSE \A f \in archive[1] : Matches(filters, f)

(***************************************************************************)
(* Two calls of snapshot_bitcoin_datadir running at once against one pod   *)
(* (k8s.py 390-430).  Both have passed their find step with a file_list    *)
(* that is not empty; the steps that follow touch the one remote name      *)
(* /tmp/bitcoin_data.tar.gz, which the variable archive stands for, and    *)
(* interleave freely.  Each call copies out to its own local_path.         *)
(***************************************************************************)
Invocations == {1, 2}

\* The file_list a call holds after a find whose output arrived line by line.
FileLists(t, F) ==
    {[k \in 1..Len(o) |-> <<Base>> \o o[k]] : o \in FindOrders(Selected(t, F))}

notTwo == <<op, pc, open, result, printed, writeVars, pollVars, file_list, local,
            waitVars, tree, filters, source, hist, ns, proc>>

\* The tar session of call i has run: the remote tar has written the archive
\* of call i's members under the fixed name.
TwoTar(i) ==
    /\ inv[i].pc = "tar"
    /\ archive' = Tarball(Archived(tree, TarMembers(inv[i].file_list)))
    /\ inv' = [inv EXCEPT ![i].pc = "copy"]
    /\ UNCHANGED notTwo

\* kubectl cp of call i succeeds: whatever is under the fixed name now is
\* copied to call i's local file.
TwoCopy(i) ==
    /\ inv[i].pc = "copy"
    /\ archive # NoFile
    /\ inv' = [inv EXCEPT ![i].pc = "cleanup", ![i].local = archive]
    /\ UNCHANGED <<archive, notTwo>>

\* kubectl cp of call i finds no file under the fixed name and exits
\* non-zero: stream_command raises, the except branch ends the call.
TwoCopyFail(i) ==
    /\ inv[i].pc = "copy"
    /\ archive = NoFile
    /\ inv' = [inv EXCEPT ![i].pc = "done"]
    /\ UNCHANGED <<archive, notTwo>>

\* The rm of call i removes whatever is under the fixed name.
TwoCleanup(i) ==
    /\ inv[i].pc = "cleanup"
    /\ archive' = NoFile
    /\ inv' = [inv EXCEPT ![i].pc = "done"]
    /\ UNCHANGED notTwo

InitTwo ==
    /\ op = "snapshot_bitcoin_datadir"
    /\ pc = "start" /\ result = "pending" /\ printed = {}
    /\ ExecIdle /\ WaitIdle
    /\ tree \in Trees
    /\ filters = <<>> /\ source = NoSource /\ ns = <<>> /\ proc = <<>>
    /\ \E F1, F2 \in FilterSets :
          \E l1 \in FileLists(tree, F1), l2 \in FileLists(tree, F2) :
             /\ l1 # <<>> /\ l2 # <<>>
             /\ inv = [i \in Invocations |->
                         [pc |-> "tar", file_list |-> IF i = 1 THEN l1 ELSE l2,
                          local |-> NoFile]]

NextTwo ==
    \E i \in Invocations :
        TwoTar(i) \/ TwoCopy(i) \/ TwoCopyFail(i) \/ TwoCleanup(i)

SpecTwo == InitTwo /\ [][NextTwo]_vars

\* The archive call i's own tar step produces.
OwnArchive(i) == Tarball(Archived(tree, TarMembers(inv[i].file_list)))

\* C12: two concurrent calls of snapshot_bitcoin_datadir on one pod do not
\* collide on the remote temporary archive: a call about to copy finds the
\* archive its own tar step produced, and what it has copied out is that
\* archive.
C12_OwnArchiveCopied ==
    \A i \in Invocations :
        /\ inv[i].pc = "copy" => archive = OwnArchive(i)
        /\ inv[i].local # NoFile => inv[i].local = OwnArchive(i)


(***************************************************************************)
(* Claims about how the bulk transfer operations end.                      *)
(***************************************************************************)

\* C15 as stated: when the exec stream breaks mid-operation (update, read,
\* write or close raises) in snapshot_bitcoin_datadir,
\* write_file_to_container or download, the call ends by raising.
C15_TransportFailureRaised ==
    hist.failure = "transport" => result = "raised"

\* C15, amended: when the exec stream breaks mid-operation, download ends by
\* raising, while write_file_to_container and snapshot_bitcoin_datadir catch
\* the error, print their failure message and return None.
C15_TransportFailureReported ==
    hist.failure = "transport" =>
        /\ pc = "done"
        /\ op = "download" => (result = "raised" /\ printed = {})
        /\ op = "write_file_to_container" =>
              (result = "None" /\ "failed" \in printed)
        /\ op = "snapshot_bitcoin_datadir" =>
              (result = "None" /\ "error" \in printed)

\* A snapshot_bitcoin_datadir whose tar session broke has returned None.
C15_Witness ==
    /\ op = "snapshot_bitcoin_datadir" /\ hist.failure = "transport"
    /\ "tar" \in hist.issued /\ result = "None"


\* C16: when the rm exec of snapshot_bitcoin_datadir raises after the archive
\* was copied out, the export is still reported as successful, no error is
\* reported, and the hint for re-expanding the archive is still printed.
C16_CleanupFailureNotMasking ==
    (op = "snapshot_bitcoin_datadir" /\ pc = "done" /\ hist.failure = "cleanup") =>
        /\ "exported" \in printed
        /\ "hint" \in printed
        /\ "error" \notin printed


\* C17: a failed download leaves neither the directory
\* destination_path/<source stem> nor extracted content behind, and a failed
\* snapshot_bitcoin_datadir leaves no local archive file (nothing existed
\* under the destination before the call).
C17_FailureLeavesNoArtifact ==
    /\ (op = "download" /\ result = "raised") =>
          (~local.folder /\ local.tree = NoFile)
    /\ (op = "snapshot_bitcoin_datadir" /\ pc = "done" /\ hist.failure # "none") =>
          local.file = NoFile

\* C18: after a successful download the destination holds the tree rooted
\* at the source's name with the contents the pod streamed and nothing else:
\* the local archive file is gone and no directory named after the source's
\* stem stands beside the extracted root; destination_path is returned.
C18_ExactlySourceTree ==
    (op = "download" /\ pc = "done" /\ result # "raised") =>
        /\ result = "path"
        /\ local.tree = source.stream
        /\ local.file = NoFile
        /\ ~(local.folder /\ source.suffix)


(***************************************************************************)
(* ln._rpc (ln.py 36-58) with get_pod (k8s.py 79-92) and the namespace     *)
(* resolution (k8s.py 278-312).  The ambient namespace is the one of the   *)
(* current kubectl context; any other process may change it at any time.   *)
(* ns.lookup and ns.exec are the namespaces the pod read and the exec were *)
(* addressed to, ns.resolved counts the reads of the ambient namespace.    *)
(***************************************************************************)
DEFAULT_NAMESPACE == "default"

\* What `kubectl config view --minify -o jsonpath='{..namespace}'` prints:
\* nothing when the context names no namespace, or the namespace.
Ambients == {"", "ns1", "ns2"}

\* The argument namespace of _rpc.
Givens == {None, Some("ns1"), Some("ns2")}

\* get_default_namespace: what kubectl printed, or DEFAULT_NAMESPACE.
get_default_namespace(ambient) ==
    IF ambient # "" THEN ambient ELSE DEFAULT_NAMESPACE

\* get_default_namespace_or(namespace).
get_default_namespace_or(given, ambient) ==
    IF given # None THEN given[1] ELSE get_default_namespace(ambient)

notRpc == <<op, open, printed, writeVars, pollVars, snapVars, local, waitVars,
            tree, filters, source, hist, inv, proc>>

\* pod = get_pod(pod_name): called without a namespace, so get_pod resolves
\* its namespace from the ambient one.
RpcGetPodResolve ==
    /\ op = "_rpc" /\ pc = "start"
    /\ ns' = [ns EXCEPT !.lookup = Some(get_default_namespace_or(None, ns.ambient)),
                        !.resolved = @ + 1]
    /\ pc' = "read_pod"
    /\ UNCHANGED <<result, notRpc>>

\* kubectl config view fails inside get_default_namespace: sys.exit(1).
RpcGetPodResolveFail ==
    /\ op = "_rpc" /\ pc = "start"
    /\ pc' = "done" /\ result' = "exit"
    /\ UNCHANGED <<ns, notRpc>>

\* sclient.read_namespaced_pod(name, namespace) returns a pod.
RpcReadPod ==
    /\ op = "_rpc" /\ pc = "read_pod"
    /\ pc' = "resolve"
    /\ UNCHANGED <<result, ns, notRpc>>

\* sclient.read_namespaced_pod raises (no such pod in that namespace).
RpcReadPodFail ==
    /\ op = "_rpc" /\ pc = "read_pod"
    /\ pc' = "done" /\ result' = "raised"
    /\ UNCHANGED <<ns, notRpc>>

\* namespace = get_default_namespace_or(namespace) in _rpc; the ambient
\* namespace is read only when no namespace was given.
RpcResolve ==
    /\ op = "_rpc" /\ pc = "resolve"
    /\ ns' = [ns EXCEPT !.exec = Some(get_default_namespace_or(ns.given, ns.ambient)),
                        !.resolved = IF ns.given = None THEN @ + 1 ELSE @]
    /\ pc' = "exec"
    /\ UNCHANGED <<result, notRpc>>

\* kubectl config view fails in that second resolution: sys.exit(1).
RpcResolveFail ==
    /\ op = "_rpc" /\ pc = "resolve" /\ ns.given = None
    /\ pc' = "done" /\ result' = "exit"
    /\ UNCHANGED <<ns, notRpc>>

\* run_command("kubectl -n <namespace> exec <pod> -- lncli ...") returns
\* the command's output.
RpcExec ==
    /\ op = "_rpc" /\ pc = "exec"
    /\ pc' = "done" /\ result' = "stdout"
    /\ UNCHANGED <<ns, notRpc>>

\* run_command raises (the command exits non-zero).
RpcExecFail ==
    /\ op = "_rpc" /\ pc = "exec"
    /\ pc' = "done" /\ result' = "raised"
    /\ UNCHANGED <<ns, notRpc>>

\* Another process switches the namespace of the current kubectl context
\* while the call is running.
AmbientChange ==
    /\ op = "_rpc" /\ pc # "done"
    /\ \E a \in Ambients \ {ns.ambient} : ns' = [ns EXCEPT !.ambient = a]
    /\ UNCHANGED <<pc, result, notRpc>>

InitRpc ==
    /\ op = "_rpc"
    /\ pc = "start" /\ result = "pending" /\ printed = {}
    /\ ExecIdle /\ WaitIdle
    /\ tree = {} /\ filters = <<>> /\ source = NoSource /\ inv = <<>> /\ proc = <<>>
    /\ ns \in [ambient : Ambients, given : Givens, lookup : {None},
               exec : {None}, resolved : {0}]

NextRpc ==
    \/ RpcGetPodResolve \/ RpcGetPodResolveFail
    \/ RpcReadPod \/ RpcReadPodFail
    \/ RpcResolve \/ RpcResolveFail
    \/ RpcExec \/ RpcExecFail
    \/ AmbientChange

SpecRpc == InitRpc /\ [][NextRpc]_vars

\* C19: in one call of ln._rpc the namespace is resolved once and both
\* platform calls use it: the pod lookup and the exec are addressed to the
\* same namespace, which is the given one when a namespace was given, and
\* the ambient namespace is read at most once.
C19_OneNamespacePerCall ==
    op = "_rpc" =>
        /\ ns.resolved <= 1
        /\ (ns.lookup # None /\ ns.given # None) => ns.lookup = ns.given
        /\ (ns.lookup # None /\ ns.exec # None) => ns.lookup = ns.exec


(***************************************************************************)
(* Claims about wait_for_pod.                                              *)
(***************************************************************************)

\* The pod was still Pending at every status read of a finished wait_for_pod.
StayedPending ==
    /\ op = "wait_for_pod" /\ pc = "done" /\ result # "raised"
    /\ \A i \in 1..Len(events) : events[i].phase = "Pending"

\* C20 as stated: wait_for_pod reports a lapsed timeout as a boolean outcome
\* that differs from what it returns when the pod left the Pending phase.
C20_LapseReportedAsBoolean ==
    StayedPending => result \in {"True", "False"}

\* C20, amended: wait_for_pod makes at most timeout_seconds status reads
\* and returns None both when the budget lapses with the pod still Pending
\* and when the pod has left Pending; the two outcomes carry the same value.
C20_LapseNotDistinguished ==
    op = "wait_for_pod" =>
        /\ Len(events) <= timeout + clock
        /\ timeout >= 0
        /\ (pc = "done" /\ result # "raised") =>
              /\ result = "None"
              /\ StayedPending <=> timeout = 0

\* A wait_for_pod that used its whole budget on a Pending pod and returned.
C20_Witness ==
    /\ StayedPending /\ Len(events) = MaxTimeout /\ result = "None"


(***************************************************************************)
(* Operations run on the controller's side.                                *)
(*                                                                         *)
(* The kubectl wrappers set_kubectl_context, apply_kubernetes_yaml and     *)
(* delete_namespace (k8s.py 188-259) over stream_command (process.py       *)
(* 23-55).  proc holds the lines the command has still to print, its exit  *)
(* status rc and the message stream_command has gathered.                  *)
(***************************************************************************)
Wrappers == {"set_kubectl_context", "apply_kubernetes_yaml", "delete_namespace"}

\* What a kubectl command may print, and the exit statuses it may end with.
OutputLines == {"l1", "l2"}
Outputs == SeqsUpTo(OutputLines, MaxOutput)
ExitStatuses == {0, 1}

notCmd == <<open, writeVars, pollVars, snapVars, local, waitVars,
            tree, filters, source, hist, ns, inv>>

\* stream_command's end: `if return_code != 0: raise Exception(message)`,
\* else `return True`.
StreamCommandResult(rc) == IF rc # 0 THEN "raised" ELSE "True"

\* subprocess.Popen(["bash", "-c", command], ...): the command runs.
CmdStart ==
    /\ op \in Wrappers /\ pc = "start"
    /\ pc' = "reading"
    /\ UNCHANGED <<op, result, printed, proc, notCmd>>

\* One turn of `for line in iter(process.stdout.readline, "")`:
\* message += line; print(line, end="").
CmdReadLine ==
    /\ op \in Wrappers /\ pc = "reading"
    /\ proc.lines # <<>>
    /\ proc' = [proc EXCEPT !.message = Append(@, Head(proc.lines)),
                            !.lines = Tail(@)]
    /\ printed' = printed \cup {"output"}
    /\ UNCHANGED <<op, pc, result, notCmd>>

\* The output has ended: process.wait() gives the exit status and
\* stream_command raises or returns True; the wrapper has no handler, so
\* the exception leaves it; on a returned value it prints its success
\* message for a true one, its failure message otherwise, and returns it.
CmdExit ==
    /\ op \in Wrappers /\ pc = "reading"
    /\ proc.lines = <<>>
    /\ pc' = "done"
    /\ result' = StreamCommandResult(proc.rc)
    /\ printed' = printed \cup (CASE result' = "True" -> {"success"}
                                  [] result' = "False" -> {"failed"}
                                  [] OTHER -> {})
    /\ UNCHANGED <<op, proc, notCmd>>

(***************************************************************************)
(* can_delete_pods (k8s.py 782-821).  proc holds the argument namespace,   *)
(* whether kubectl can tell the ambient namespace, whether the kubeconfig  *)
(* loads, and what the access review call will answer.                     *)
(***************************************************************************)

\* What create_self_subject_access_review may do: answer allowed or
\* denied, raise ApiException (the API server answers with an error
\* status), or raise another error (the API server cannot be reached).
Reviews == {"allowed", "denied", "ApiException", "unreachable"}

Answers == {"ok", "fails"}

\* A variant of ReviewResult that lets an ApiException leave the function.
ReviewResultEscalating(r) ==
    CASE r = "allowed" -> "True"
      [] r = "denied" -> "False"
      [] OTHER -> "raised"

\* The try block and its `except ApiException`: True for allowed, False
\* for denied and for an ApiException; any other error is not caught.
ReviewResult(r) ==
    CASE r = "allowed" -> "True"
      [] r \in {"denied", "ApiException"} -> "False"
      [] OTHER -> "raised"

\* namespace = get_default_namespace_or(namespace): the argument, or the
\* ambient namespace asked of kubectl.
CdpResolve ==
    /\ op = "can_delete_pods" /\ pc = "start"
    /\ proc.given # None \/ proc.kubectl = "ok"
    /\ pc' = "client"
    /\ UNCHANGED <<op, result, printed, proc, notCmd>>

\* kubectl fails inside get_default_namespace: sys.exit(1).
CdpResolveExit ==
    /\ op = "can_delete_pods" /\ pc = "start"
    /\ proc.given = None /\ proc.kubectl = "fails"
    /\ pc' = "done" /\ result' = "exit"
    /\ printed' = printed \cup {"kubectl"}
    /\ UNCHANGED <<op, proc, notCmd>>

\* get_static_client() loads the kubeconfig.
CdpClient ==
    /\ op = "can_delete_pods" /\ pc = "client"
    /\ proc.config = "ok"
    /\ pc' = "review"
    /\ UNCHANGED <<op, result, printed, proc, notCmd>>

\* config.load_kube_config raises, outside the try block.
CdpClientFail ==
    /\ op = "can_delete_pods" /\ pc = "client"
    /\ proc.config = "fails"
    /\ pc' = "done" /\ result' = "raised"
    /\ UNCHANGED <<op, printed, proc, notCmd>>

\* auth_api.create_self_subject_access_review(body=access_review) and
\* what follows it.
CdpReview ==
    /\ op = "can_delete_pods" /\ pc = "review"
    /\ pc' = "done"
    /\ result' = ReviewResult(proc.review)
    /\ printed' = printed \cup (CASE proc.review = "allowed" -> {"can"}
                                  [] proc.review = "denied" -> {"cannot"}
                                  [] proc.review = "ApiException" -> {"error"}
                                  [] OTHER -> {})
    /\ UNCHANGED <<op, proc, notCmd>>

(***************************************************************************)
(* build_image (image_build.py 26-113) over its own run_command (9-23).    *)
(* proc holds the architectures named in the argument arches, what each of *)
(* the four docker commands will do, the commands issued so far in order,  *)
(* and the local variable res.                                             *)
(***************************************************************************)
ARCHES == {"amd64", "arm64", "armhf"}

\* The argument arches, split at its commas; <<>> is an empty argument.
ArchLists == SeqsUpTo({"amd64", "arm64", "riscv64"}, MaxArches)

\* What a docker command run through run_command may do: exit with zero
\* (True), exit with non-zero (CalledProcessError, False); the build may
\* also make subprocess.run raise another Exception, or be interrupted
\* from the keyboard.
CommandOutcomes == {"ok", "fails"}
BuildOutcomes == {"ok", "fails", "raises", "interrupted"}

\* build_arches: amd64 when arches is empty, else the architectures named.
BuildArches(arches) == IF arches = <<>> THEN <<"amd64">> ELSE arches

Supported(arches) ==
    \A i \in 1..Len(BuildArches(arches)) : BuildArches(arches)[i] \in ARCHES

\* A variant of BuildResult that reports failure when the builder could
\* not be removed.
BuildResultNeedsRemoval(res, removed) == res /\ removed

\* `return bool(res)`.
BuildResult(res, removed) == res

\* The loop over build_arches: an unsupported architecture is reported
\* and False returned.
BuildCheckArches ==
    /\ op = "build_image" /\ pc = "start"
    /\ IF Supported(proc.arches)
       THEN /\ pc' = "create"
            /\ UNCHANGED <<result, printed>>
       ELSE /\ pc' = "done" /\ result' = "False"
            /\ printed' = printed \cup {"unsupported"}
    /\ UNCHANGED <<op, proc, notCmd>>

\* run_command(create_builder_cmd).
BuildCreate ==
    /\ op = "build_image" /\ pc = "create"
    /\ proc' = [proc EXCEPT !.issued = Append(@, "create")]
    /\ pc' = IF proc.create = "ok" THEN "build" ELSE "use"
    /\ UNCHANGED <<op, result, printed, notCmd>>

\* run_command(use_builder_cmd), tried when the create command failed;
\* when it fails too the function reports it and returns False.
BuildUse ==
    /\ op = "build_image" /\ pc = "use"
    /\ proc' = [proc EXCEPT !.issued = Append(@, "use")]
    /\ IF proc.use = "ok"
       THEN /\ pc' = "build"
            /\ UNCHANGED <<result, printed>>
       ELSE /\ pc' = "done" /\ result' = "False"
            /\ printed' = printed \cup {"nobuilder"}
    /\ UNCHANGED <<op, notCmd>>

\* res = run_command(build_command) inside try; `except Exception` prints
\* the error and leaves res False.
BuildRun ==
    /\ op = "build_image" /\ pc = "build"
    /\ proc' = [proc EXCEPT !.issued = Append(@, "build"),
                            !.res = (proc.build = "ok")]
    /\ printed' = IF proc.build = "raises" THEN printed \cup {"error"} ELSE printed
    /\ pc' = "cleanup"
    /\ UNCHANGED <<op, result, notCmd>>

\* The finally block: run_command(cleanup_builder_cmd) and its message;
\* then `return bool(res)`, or the interrupt goes on its way.
BuildCleanup ==
    /\ op = "build_image" /\ pc = "cleanup"
    /\ proc' = [proc EXCEPT !.issued = Append(@, "rm")]
    /\ printed' = printed \cup (IF proc.rm = "ok" THEN {"removed"} ELSE {"warning"})
    /\ pc' = "done"
    /\ result' = IF proc.build = "interrupted" THEN "raised"
                 ELSE IF BuildResult(proc.res, proc.rm = "ok") THEN "True"
                 ELSE "False"
    /\ UNCHANGED <<op, notCmd>>

CmdOperations == Wrappers \cup {"can_delete_pods", "build_image"}

InitCmd ==
    /\ op \in CmdOperations
    /\ pc = "start" /\ result = "pending" /\ printed = {}
    /\ ExecIdle /\ WaitIdle
    /\ tree = {} /\ filters = <<>> /\ source = NoSource /\ ns = <<>> /\ inv = <<>>
    /\ proc \in (CASE op \in Wrappers ->
                       [lines : Outputs, rc : ExitStatuses, message : {<<>>}]
                   [] op = "can_delete_pods" ->
                       [given : Givens, kubectl : Answers, config : Answers,
                        review : Reviews]
                   [] op = "build_image" ->
                       [arches : ArchLists, create : CommandOutcomes,
                        use : CommandOutcomes, build : BuildOutcomes,
                        rm : CommandOutcomes, issued : {<<>>}, res : {FALSE}])

NextCmd ==
    \/ CmdStart \/ CmdReadLine \/ CmdExit
    \/ CdpResolve \/ CdpResolveExit \/ CdpClient \/ CdpClientFail \/ CdpReview
    \/ BuildCheckArches \/ BuildCreate \/ BuildUse \/ BuildRun \/ BuildCleanup

SpecCmd == InitCmd /\ [][NextCmd]_vars

(***************************************************************************)
(* Claims about the operations run on the controller's side.               *)
(***************************************************************************)

\* C21: set_kubectl_context, apply_kubernetes_yaml and delete_namespace do
\* not raise when the kubectl command fails: they return False, having
\* printed their failure message, on a non-zero exit status, and True on
\* zero.
C21_WrapperReturnsBoolean ==
    (op \in Wrappers /\ pc = "done") =>
        /\ result # "raised"
        /\ proc.rc = 0 => result = "True"
        /\ proc.rc # 0 => (result = "False" /\ "failed" \in printed)


\* C22 as stated: can_delete_pods returns a boolean and never raises; it
\* returns True exactly when the access review reports allowed, and False
\* when the review denies and when the review call raises ApiException.
C22_NeverRaises ==
    (op = "can_delete_pods" /\ pc = "done") =>
        /\ result \in {"True", "False"}
        /\ result = "True" <=> proc.review = "allowed"

\* The access review call of can_delete_pods has been made.
Reviewed ==
    /\ op = "can_delete_pods" /\ pc = "done"
    /\ proc.given # None \/ proc.kubectl = "ok"
    /\ proc.config = "ok"

\* C22, amended: once the access review call is made, can_delete_pods
\* returns True exactly when the review reports allowed and False when the
\* review denies or the call raises ApiException; it does leave by raising
\* when the call raises another error or the kubeconfig does not load, and
\* by exiting when the ambient namespace cannot be resolved.
C22_BooleanForReviewAnswers ==
    (op = "can_delete_pods" /\ pc = "done") =>
        /\ result = "True" <=> (Reviewed /\ proc.review = "allowed")
        /\ result = "False" <=> (Reviewed /\ proc.review \in {"denied", "ApiException"})
        /\ result = "False" =>
              printed = (IF proc.review = "denied" THEN {"cannot"} ELSE {"error"})
        /\ result = "exit" <=> (proc.given = None /\ proc.kubectl = "fails")
        /\ result \in {"True", "False", "raised", "exit"}

\* A can_delete_pods whose review call raised ApiException returned False.
C22_Witness ==
    /\ Reviewed /\ proc.review = "ApiException"
    /\ result = "False" /\ "error" \in printed


(***************************************************************************)
(* Claims about the poll loops of snapshot_bitcoin_datadir and download.   *)
(***************************************************************************)

\* The poll loop of the find step or of download has been left because
\* the session is no longer open.
LoopLeft ==
    \/ op = "snapshot_bitcoin_datadir" /\ pc = "find_loop" /\ ~connected
    \/ op = "download" /\ pc = "dl_loop" /\ ~connected

\* C23: in the poll loops of the find step and of download the stdout the
\* remote process produced is consumed once and in arrival order: what
\* read_stdout has returned so far, followed by what is still to arrive, is
\* the output, and when the loop is left on a closed session nothing is
\* left unread.
C23_OutputDrainedInOrder ==
    /\ (op \in {"snapshot_bitcoin_datadir", "download"}
          /\ pc \in {"find_loop", "dl_loop"}) => hist.read \o out = hist.sent
    /\ LoopLeft => (hist.read = hist.sent /\ out = <<>>)

\* The find loop has been left on a closed session after reading an output
\* that came in more frames than it has lines.
C23_Witness ==
    /\ LoopLeft /\ op = "snapshot_bitcoin_datadir"
    /\ hist.sent # <<>>
    /\ Len(file_list) > Cardinality(Selected(tree, filters))

NotEmpty(line) == line # <<>>

\* The lines of a newline-delimited text that are not empty.
NonEmptyLines(text) == SelectSeq(Split(text), NotEmpty)

\* C24: however the find output is cut into read_stdout chunks, the
\* file_list parsed from it is the list of the non-empty lines of the
\* whole output.
C24_ChunkIndependentParsing ==
    (op = "snapshot_bitcoin_datadir" /\ pc = "find_loop" /\ ~connected) =>
        file_list = NonEmptyLines(hist.sent)


\* The builder of a build_image call has been set up: the architectures
\* are supported and the create command, or else the use command, succeeded.
BuilderSetUp ==
    /\ op = "build_image" /\ Supported(proc.arches)
    /\ proc.create = "ok" \/ proc.use = "ok"

\* The places at which the command c was issued.
IssuedAt(c) == {i \in 1..Len(proc.issued) : proc.issued[i] = c}

\* C25: build_image returns False without issuing any command when an
\* architecture is unsupported; once the builder is set up, the removal
\* command is issued exactly once on every exit path, after the build
\* command, whether that succeeded, failed or raised; and the boolean
\* returned is the build command's success, whatever the removal did.
C25_BuilderScoped ==
    op = "build_image" =>
        /\ ~Supported(proc.arches) =>
              (proc.issued = <<>> /\ (pc = "done" => result = "False"))
        /\ Cardinality(IssuedAt("rm")) <= 1
        /\ ~BuilderSetUp => (IssuedAt("rm") = {} /\ IssuedAt("build") = {})
        /\ (pc = "done" /\ BuilderSetUp) =>
              /\ IssuedAt("rm") = {Len(proc.issued)}
              /\ IssuedAt("build") = {Len(proc.issued) - 1}
              /\ result \in {"True", "False", "raised"}
              /\ result = "True" <=> proc.build = "ok"
              /\ result = "raised" <=> proc.build = "interrupted"

\* A build_image that fell back to the use command, built, could not
\* remove the builder and returned True.
C25_Witness ==
    /\ op = "build_image" /\ pc = "done"
    /\ proc.issued = <<"create", "use", "build", "rm">>
    /\ proc.rm = "fails" /\ "warning" \in printed
    /\ result = "True"

=============================================================================
